---- MODULE Spec2Model ----
(***************************************************************************)
(* State-machine model of the IFC viewer (src/unnamed/part_000, the        *)
(* current main.ts; src/src/main.ts is an earlier revision of the same     *)
(* file).  One action per event handler or per synchronous segment of an   *)
(* async function (the code between two awaits).                           *)
(*                                                                         *)
(* Library behaviour assumed (the libraries are not part of the sources):  *)
(*  - fragments.list, views.list, classifier.list are JavaScript Maps:     *)
(*    insertion ordered, deleting an entry during for..of does not skip    *)
(*    the following entries;                                               *)
(*  - views.open(id) / views.close(id) open / close exactly that view;     *)
(*  - a classification group's get() returns a map model id -> local ids;  *)
(*  - model.setVisible(ids, v) changes the items of that model whose local *)
(*    id is in ids and ignores the other ids;                              *)
(*  - clipper.createFromNormalAndCoplanarPoint appends one plane;          *)
(*  - a click on the header of a bim-panel-section toggles its `collapsed` *)
(*    attribute before the click reaches the listeners of the section; the *)
(*    content of a collapsed section cannot be clicked.                    *)
(***************************************************************************)
EXTENDS Integers, Sequences, FiniteSets, TLC

\* ------------------------------------------------------------------ bounds
\* number of loadIfcFromFile invocations followed in one behaviour
MaxCalls == 2

\* openFloorPlan invocations that may wait for the camera at the same time
MaxOpening == 1
\* applyFilters invocations that may be running at the same time
MaxRuns == 1
\* clipping planes in clipper.list
MaxPlanes == 8

\* ------------------------------------------------------------- JS strings
\* Strings the code converts or tests are sequences of one-character strings.
NULL == "null"
\* "no model": model ids are strings too, and no file has an empty name
NoModel == <<>>

LowerChar(c) ==
  CASE c = "A" -> "a" [] c = "B" -> "b" [] c = "C" -> "c" [] c = "E" -> "e"
    [] c = "F" -> "f" [] c = "I" -> "i" [] c = "L" -> "l" [] c = "P" -> "p"
    [] c = "S" -> "s" [] c = "T" -> "t" [] c = "W" -> "w" [] c = "X" -> "x"
    [] OTHER -> c

toLowerCase(s) == [i \in 1..Len(s) |-> LowerChar(s[i])]

endsWith(s, suffix) ==
  /\ Len(s) >= Len(suffix)
  /\ SubSeq(s, Len(s) - Len(suffix) + 1, Len(s)) = suffix

\* index of the first occurrence of pat in s, 0 when there is none
indexOf(s, pat) ==
  LET hits == {i \in 1..(Len(s) - Len(pat) + 1) : SubSeq(s, i, i + Len(pat) - 1) = pat}
  IN IF hits = {} THEN 0 ELSE CHOOSE i \in hits : \A j \in hits : i <= j

includes(s, pat) == indexOf(s, pat) # 0

\* String.prototype.replace with a string pattern: the first occurrence only
replace(s, pat, rep) ==
  LET i == indexOf(s, pat)
  IN IF i = 0 THEN s
     ELSE SubSeq(s, 1, i - 1) \o rep \o SubSeq(s, i + Len(pat), Len(s))

DotIfc == <<".", "i", "f", "c">>

\* ------------------------------------------------------------------ files
\* The files the user can pick or drop.
FileA == <<"a", ".", "i", "f", "c">>
FileB == <<"B", ".", "I", "F", "C">>
FileT == <<"c", ".", "t", "x", "t">>
FileNames == {FileA, FileB, FileT}

\* whether web-ifc can convert the content of the file
ValidIfc(name) == name \in {FileA, FileB}

\* the model id ifcLoader.load is given
ModelIdOf(name) == replace(name, DotIfc, <<>>)

ModelIds == {ModelIdOf(n) : n \in {m \in FileNames : ValidIfc(m)}}

MA == ModelIdOf(FileA)
MB == ModelIdOf(FileB)

\* ------------------------------------------------------------ model data
\* What the loaded files contain: items (local ids), the storey
\* (IfcBuildingStorey) an item is contained in, its IFC category, and the
\* bounding box of the geometry.  Local ids are per model, so the two models
\* share the ids 1 and 2.  Item 3 of model "a" is the site: it has a category
\* and is contained in no storey.
IFCWALL  == <<"I", "F", "C", "W", "A", "L", "L">>
IFCSPACE == <<"I", "F", "C", "S", "P", "A", "C", "E">>
IFCSITE  == <<"I", "F", "C", "S", "I", "T", "E">>
ifcspace == <<"i", "f", "c", "s", "p", "a", "c", "e">>
NoStorey == "-"

ItemsOf(m) == IF m = MA THEN {1, 2, 3} ELSE {1, 2}

StoreyOf(m, i) ==
  IF m = MA THEN (CASE i = 1 -> "Terreo" [] i = 2 -> "Piso 1" [] OTHER -> NoStorey)
  ELSE (CASE i = 1 -> "Piso 1" [] OTHER -> "Terreo")

CategoryOf(m, i) ==
  IF m = MA THEN (CASE i = 1 -> IFCWALL [] i = 2 -> IFCSPACE [] OTHER -> IFCSITE)
  ELSE (CASE i = 1 -> IFCSPACE [] OTHER -> IFCWALL)

\* Lengths are in quarters of a unit, so that the margin 0.5 and the centre
\* of a box with whole-number corners are integers.
BoxOf(m) ==
  IF m = MA THEN [min |-> <<0, 0, 0>>, max |-> <<16, 8, 24>>]
  ELSE [min |-> <<-8, 4, 8>>, max |-> <<8, 12, 16>>]

\* ------------------------------------------------------------------ state
VARIABLES
  \* loading (part_000:199-415)
  isLoading,        \* let isLoading
  overlay,          \* loadingOverlay: display, file name, percent, status
  calls,            \* the invocations of loadIfcFromFile and, for a loaded
                    \* model, of the onItemSet handler and its timer callback
  lastAlert,        \* the message of the most recent alert()
  \* drag and drop (part_000:2194-2236)
  dropZone,         \* let dropZone: TRUE when it holds an element
  dropIndicators,   \* number of .drop-zone-active elements in the document
  \* models (part_000:437-573)
  fragmentsList,    \* keys of fragments.list in insertion order
  scene,            \* models whose object is a child of world.scene.three
  objVisible,       \* model.object.visible of the models in fragments.list
  modelVisibilityState,
  modelsListUI,     \* content of #models-list
  \* floor plans (part_000:640-969)
  viewsList,        \* keys of views.list
  openViews,        \* the views of views.list that are open
  floorViews,       \* let floorViews (ids)
  currentViewId,
  gridVisible,      \* grid.visible
  projection,       \* world.camera.projection
  maxPolarAngle,    \* world.camera.controls.maxPolarAngle: "0" or "PI"
  floorDropdown,    \* #floor-dropdown: options and selected value
  opening,          \* openFloorPlan invocations waiting for the camera
  \* filters (part_000:976-1188)
  classifier,       \* models classified under "Storeys" and "Categories"
  filterState,
  filterUI,         \* the rendered checkboxes: name -> checked
  hidden,           \* items made invisible by model.setVisible: <<model, id>>
  runs,             \* the invocations of applyFilters
  \* clipper (part_000:1194-1397)
  clipperList,      \* clipper.list: the planes in creation order
  clippingMode,     \* let clippingMode
  dblclick,         \* where the dblclick callback waits: "idle", "create", "frame"
  clippingBoxHelper,
  sceneHelpers,     \* BoxHelper objects that are children of the scene
  \* panel (part_000:1400-1673)
  collapsed,        \* section -> it has the `collapsed` attribute
  clickListeners    \* button of the panel -> the click listeners added to it

loadVars == <<isLoading, overlay, calls, lastAlert>>
dropVars == <<dropZone, dropIndicators>>
fragVars == <<fragmentsList, scene, objVisible, modelVisibilityState, modelsListUI>>
viewVars == <<viewsList, openViews, floorViews, currentViewId, gridVisible,
              projection, maxPolarAngle, floorDropdown, opening>>
filterVars == <<classifier, filterState, filterUI, hidden, runs>>
clipVars == <<clipperList, clippingMode, dblclick, clippingBoxHelper, sceneHelpers>>
panelVars == <<collapsed, clickListeners>>
vars == <<loadVars, dropVars, fragVars, viewVars, filterVars, clipVars, panelVars>>

Calls == 1..MaxCalls

\* a Map as a function on the set of its keys
EmptyMap == <<>>
Put(map, k, v) == [x \in (DOMAIN map) \cup {k} |-> IF x = k THEN v ELSE map[x]]
Keys(seq) == {seq[i] : i \in 1..Len(seq)}

\* const [model] = fragments.list.values()
FirstModel == IF fragmentsList = <<>> THEN NoModel ELSE fragmentsList[1]

IdleCall == [pc |-> "idle", file |-> <<>>, src |-> "-", h |-> "-", cap |-> NoModel]

\* ---------------------------------------------------------------- loading
\* showLoading / hideLoading / updateProgress (part_000:353-376)
showLoading(filename) ==
  [display |-> "flex", filename |-> filename, percent |-> 0, status |-> "Iniciando..."]

hideLoading(ov) == [ov EXCEPT !.display = "none"]

\* progress is given in hundredths; Math.round(progress * 100)
updateProgress(ov, percent, status) == [ov EXCEPT !.percent = percent, !.status = status]

\* progressCallback: 0.1 + progress * 0.85, progress in percent, rounded
mappedProgress(progress) == (1000 + 85 * progress + 50) \div 100

\* the values the loader reports to progressCallback
LoaderProgress == {0, 20, 100}

\* if (isLoading) return;
GuardNever == FALSE
LoadGuard == isLoading

InProgress(c) == calls[c].pc \in {"reading", "converting", "delay"}

\* the file is not loaded yet and is not being loaded: a model id is the key
\* of one entry of fragments.list
FreshFile(f) ==
  /\ ModelIdOf(f) \notin Keys(fragmentsList)
  /\ \A c \in Calls : InProgress(c) => calls[c].file # f

\* the invocations are numbered in the order they are made
NextCall(c) ==
  /\ calls[c].pc = "idle"
  /\ \A d \in Calls : d < c => calls[d].pc # "idle"

\* loadIfcFromFile up to `await file.arrayBuffer()`
loadIfcFromFile(c, f, src) ==
  IF LoadGuard
  THEN /\ calls' = [calls EXCEPT ![c].pc = "returned"]
       /\ UNCHANGED <<isLoading, overlay>>
  ELSE /\ isLoading' = TRUE
       /\ overlay' = updateProgress(showLoading(f), 5, "Lendo arquivo...")
       /\ calls' = [calls EXCEPT ![c] = [IdleCall EXCEPT !.pc = "reading", !.file = f, !.src = src]]

\* catch (alert) and finally of loadIfcFromFile
LoadFailedNoFinally(c) ==
  /\ lastAlert' = "Erro ao carregar o arquivo IFC. Verifique o console."
  /\ UNCHANGED <<overlay, isLoading>>
  /\ calls' = [calls EXCEPT ![c] = [IdleCall EXCEPT !.pc = "done"]]
LoadFailed(c) ==
  /\ lastAlert' = "Erro ao carregar o arquivo IFC. Verifique o console."
  /\ overlay' = hideLoading(overlay)
  /\ isLoading' = FALSE
  /\ calls' = [calls EXCEPT ![c] = [IdleCall EXCEPT !.pc = "done"]]

\* #file-input change (part_000:1402-1407): no check of the file name
OnFileInput(f) ==
  /\ FreshFile(f)
  /\ \E c \in Calls : NextCall(c) /\ loadIfcFromFile(c, f, "input")
  /\ UNCHANGED <<lastAlert, dropVars, fragVars, viewVars, filterVars, clipVars, panelVars>>

\* file.arrayBuffer() settles
ReadDone(c, ok) ==
  /\ calls[c].pc = "reading"
  /\ IF ok
     THEN /\ overlay' = updateProgress(overlay, 10, "Processando IFC...")
          /\ calls' = [calls EXCEPT ![c].pc = "converting"]
          /\ UNCHANGED <<isLoading, lastAlert>>
     ELSE LoadFailed(c)
  /\ UNCHANGED <<dropVars, fragVars, viewVars, filterVars, clipVars, panelVars>>

\* progressCallback during ifcLoader.load
Progress(c, p) ==
  /\ calls[c].pc = "converting"
  /\ overlay' = updateProgress(overlay, mappedProgress(p), "Convertendo geometrias...")
  /\ UNCHANGED <<isLoading, calls, lastAlert, dropVars, fragVars, viewVars, filterVars, clipVars, panelVars>>

\* updateModelsList (part_000:501-537)
updateModelsList(list, mvs) ==
  IF list = <<>> THEN [placeholder |-> TRUE, items |-> <<>>]
  ELSE [placeholder |-> FALSE,
        items |-> [i \in 1..Len(list) |->
                     [id |-> list[i],
                      checked |-> ~(list[i] \in DOMAIN mvs /\ mvs[list[i]] = FALSE)]]]

\* ifcLoader.load throws: the content is no IFC
LoaderThrows(c) ==
  /\ calls[c].pc = "converting"
  /\ ~ValidIfc(calls[c].file)
  /\ LoadFailed(c)
  /\ UNCHANGED <<dropVars, fragVars, viewVars, filterVars, clipVars, panelVars>>

\* ifcLoader.load resolves: the model was set in fragments.list, which ran the
\* onItemSet handler up to its first await (part_000:62-66), and
\* loadIfcFromFile goes on to its 500 ms delay (part_000:403-407)
LoaderDone(c) ==
  LET id == ModelIdOf(calls[c].file) IN
  /\ calls[c].pc = "converting"
  /\ ValidIfc(calls[c].file)
  /\ fragmentsList' = Append(fragmentsList, id)
  /\ scene' = scene \cup {id}
  /\ objVisible' = Put(objVisible, id, TRUE)
  /\ hidden' = {it \in hidden : it[1] # id}
  /\ overlay' = updateProgress(overlay, 100, "Concluido!")
  /\ calls' = [calls EXCEPT ![c].pc = "delay", ![c].file = <<>>, ![c].h = "frames"]
  /\ UNCHANGED <<isLoading, lastAlert, modelVisibilityState, modelsListUI,
                 classifier, filterState, filterUI, runs,
                 dropVars, viewVars, clipVars, panelVars>>

\* the delay is over: finally { hideLoading(); isLoading = false; }
DelayDone(c) ==
  /\ calls[c].pc = "delay"
  /\ overlay' = hideLoading(overlay)
  /\ isLoading' = FALSE
  /\ calls' = [calls EXCEPT ![c].pc = "done", ![c].src = "-"]
  /\ UNCHANGED <<lastAlert, dropVars, fragVars, viewVars, filterVars, clipVars, panelVars>>

\* ---------------------------------------------------------- drag and drop
\* container dragover (part_000:2196-2206)
DragOver ==
  /\ IF ~dropZone
     THEN dropZone' = TRUE /\ dropIndicators' = dropIndicators + 1
     ELSE UNCHANGED dropVars
  /\ UNCHANGED <<loadVars, fragVars, viewVars, filterVars, clipVars, panelVars>>

\* container dragleave (part_000:2208-2216); outside: relatedTarget is not
\* inside the container
DragLeave(outside) ==
  /\ IF dropZone /\ outside
     THEN dropZone' = FALSE /\ dropIndicators' = dropIndicators - 1
     ELSE UNCHANGED dropVars
  /\ UNCHANGED <<loadVars, fragVars, viewVars, filterVars, clipVars, panelVars>>

\* file.name.toLowerCase().endsWith(".ifc")
AcceptsAnyName(name) == TRUE
AcceptsDrop(name) == endsWith(toLowerCase(name), DotIfc)

\* if (dropZone) { dropZone.remove(); dropZone = null; }
RemoveDropZone ==
  IF dropZone
  THEN dropZone' = FALSE /\ dropIndicators' = dropIndicators - 1
  ELSE UNCHANGED dropVars

\* container drop (part_000:2218-2236); files: the dropped files
Drop(files) ==
  /\ RemoveDropZone
  /\ IF files # <<>>
     THEN IF AcceptsDrop(files[1])
          THEN /\ FreshFile(files[1])
               /\ \E c \in Calls : NextCall(c) /\ loadIfcFromFile(c, files[1], "drop")
               /\ UNCHANGED lastAlert
          ELSE /\ lastAlert' = "Por favor, solte apenas arquivos .ifc"
               /\ UNCHANGED <<isLoading, overlay, calls>>
     ELSE UNCHANGED loadVars
  /\ UNCHANGED <<fragVars, viewVars, filterVars, clipVars, panelVars>>

\* what a drop can carry: nothing, or one of the files
Drops == {<<>>} \cup {<<f>> : f \in FileNames}

\* ------------------------------------------------- onItemSet handler steps
\* A model object that was deleted from fragments.list is not reachable from
\* the list any more; a handler that still holds it acts on an orphan.
Orphan == <<"?">>

Finished(rec) == [rec EXCEPT !.h = "done", !.cap = NoModel]

\* updateStoreyData (part_000:771-822) begins
AtStorey(rec) ==
  IF fragmentsList = <<>> THEN Finished(rec)
  ELSE [rec EXCEPT !.h = "storey", !.cap = NoModel]

\* hideIfcSpaces (part_000:1001-1006) begins; cats: classifier.list.get("Categories")
AtHide(rec, cats) ==
  IF FirstModel = NoModel \/ cats = {} THEN AtStorey(rec)
  ELSE [rec EXCEPT !.h = "hide", !.cap = FirstModel]

\* processClassifications (part_000:982-992) begins
AtProc(rec) ==
  IF FirstModel = NoModel THEN AtHide(rec, classifier.categories)
  ELSE [rec EXCEPT !.h = "proc", !.cap = NoModel]

\* generateFloorPlans (part_000:657-667) begins
AtGen(rec) ==
  IF FirstModel = NoModel THEN AtProc(rec)
  ELSE [rec EXCEPT !.h = "gen1", !.cap = FirstModel]

\* the three animation frames have passed; adjustModelToLevel0 begins
HandlerFramesDone(c) ==
  /\ calls[c].h = "frames"
  /\ calls' = [calls EXCEPT ![c].h = "adjust"]
  /\ UNCHANGED <<isLoading, overlay, lastAlert, dropVars, fragVars, viewVars, filterVars, clipVars, panelVars>>

\* adjustModelToLevel0 returned: frameModel, updateModelsList, setTimeout
\* (part_000:82-99)
HandlerAdjustNoTimer(c) ==
  /\ calls[c].h = "adjust"
  /\ modelsListUI' = updateModelsList(fragmentsList, modelVisibilityState)
  /\ calls' = [calls EXCEPT ![c] =
       IF FirstModel = NoModel THEN Finished(calls[c])
       ELSE [calls[c] EXCEPT !.h = "gen1", !.cap = FirstModel]]
  /\ UNCHANGED <<isLoading, overlay, lastAlert, fragmentsList, scene, objVisible,
                 modelVisibilityState, dropVars, viewVars, filterVars, clipVars, panelVars>>
HandlerAdjustDone(c) ==
  /\ calls[c].h = "adjust"
  /\ modelsListUI' = updateModelsList(fragmentsList, modelVisibilityState)
  /\ calls' = [calls EXCEPT ![c].h = "timer"]
  /\ UNCHANGED <<isLoading, overlay, lastAlert, fragmentsList, scene, objVisible,
                 modelVisibilityState, dropVars, viewVars, filterVars, clipVars, panelVars>>

\* the 500 ms timer fires (part_000:94-95)
TimerFires(c) ==
  /\ calls[c].h = "timer"
  /\ calls' = [calls EXCEPT ![c] = AtGen(calls[c])]
  /\ UNCHANGED <<isLoading, overlay, lastAlert, dropVars, fragVars, viewVars, filterVars, clipVars, panelVars>>

\* the items of a set of models, as <<model, local id>>
AllItems(models) == UNION {{<<m, i>> : i \in ItemsOf(m)} : m \in models}

StoreysIn(models) == {StoreyOf(it[1], it[2]) : it \in AllItems(models)} \ {NoStorey}
CategoriesIn(models) == {CategoryOf(it[1], it[2]) : it \in AllItems(models)}

\* Object.values(await groupData.get()): the local ids of the group, of every
\* classified model
StoreyGroupIds(name) ==
  {it[2] : it \in {x \in AllItems(classifier.storeys) : StoreyOf(x[1], x[2]) = name}}
CategoryGroupIds(name) ==
  {it[2] : it \in {x \in AllItems(classifier.categories) : CategoryOf(x[1], x[2]) = name}}

\* model.setVisible(ids, visible) on the model object `m`
setVisible(hid, m, ids, visible) ==
  IF m \notin Keys(fragmentsList) THEN hid
  ELSE IF visible THEN hid \ {<<m, i>> : i \in ids}
  ELSE hid \cup {<<m, i>> : i \in ids \cap ItemsOf(m)}

\* updateFilterUI (part_000:1030-1091): missing names are entered as checked,
\* and one checkbox per name is rendered from filterState
WithDefaults(map, names) ==
  [n \in (DOMAIN map) \cup names |-> IF n \in DOMAIN map THEN map[n] ELSE TRUE]

updateFilterUI(cls, fs) ==
  LET st == WithDefaults(fs.storeys, StoreysIn(cls.storeys))
      ca == WithDefaults(fs.categories, CategoriesIn(cls.categories))
  IN [state |-> [storeys |-> st, categories |-> ca],
      ui |-> [storeys |-> [n \in StoreysIn(cls.storeys) |-> st[n]],
              categories |-> [n \in CategoriesIn(cls.categories) |-> ca[n]]]]

\* manual views of generateFloorPlans (part_000:703-732): one per 3 units of
\* height (12 quarters) and the top view
LevelName(i) == CASE i = 1 -> "Nivel 1" [] i = 2 -> "Nivel 2" [] OTHER -> "Nivel 3"
NumFloors(m) ==
  LET height == BoxOf(m).max[2] - BoxOf(m).min[2]
      n == (height + 11) \div 12
  IN IF n < 1 THEN 1 ELSE n
ManualViews(m) == {LevelName(i) : i \in 1..NumFloors(m)} \cup {"Vista Superior (Topo)"}

\* generateFloorPlans after `await classifier.byIfcBuildingStorey()`: the old
\* views are deleted (part_000:672-680); a deleted view is not open any more
GenClassified(c) ==
  /\ calls[c].h = "gen1"
  /\ classifier' = [classifier EXCEPT !.storeys = @ \cup Keys(fragmentsList)]
  /\ viewsList' = viewsList \ floorViews
  /\ openViews' = openViews \ floorViews
  /\ floorViews' = {}
  /\ calls' = [calls EXCEPT ![c].h = "gen2"]
  /\ UNCHANGED <<isLoading, overlay, lastAlert, dropVars, fragVars, currentViewId,
                 gridVisible, projection, maxPolarAngle, floorDropdown, opening,
                 filterState, filterUI, hidden, runs, clipVars, panelVars>>

\* generateFloorPlans after `await views.createFromIfcStoreys(..)`
\* (part_000:689-736), then processClassifications begins
GenViewsCreated(c) ==
  LET ifcViews == StoreysIn(Keys(fragmentsList))
      created == IF ifcViews # {} THEN ifcViews
                 ELSE IF floorViews # {} THEN {}
                 ELSE ManualViews(calls[c].cap)
      fv == IF ifcViews # {} THEN ifcViews
            ELSE IF floorViews # {} THEN floorViews
            ELSE ManualViews(calls[c].cap)
  IN
  /\ calls[c].h = "gen2"
  /\ viewsList' = viewsList \cup created
  /\ floorViews' = fv
  /\ floorDropdown' = [options |-> fv, value |-> ""]
  /\ calls' = [calls EXCEPT ![c] = AtProc(calls[c])]
  /\ UNCHANGED <<isLoading, overlay, lastAlert, dropVars, fragVars, openViews,
                 currentViewId, gridVisible, projection, maxPolarAngle, opening,
                 filterVars, clipVars, panelVars>>

\* processClassifications after its two awaits (part_000:989-997), then
\* hideIfcSpaces begins
ProcDone(c) ==
  LET cls == [storeys |-> classifier.storeys \cup Keys(fragmentsList),
              categories |-> classifier.categories \cup Keys(fragmentsList)]
      upd == updateFilterUI(cls, filterState)
  IN
  /\ calls[c].h = "proc"
  /\ classifier' = cls
  /\ filterState' = upd.state
  /\ filterUI' = upd.ui
  /\ calls' = [calls EXCEPT ![c] = AtHide(calls[c], cls.categories)]
  /\ UNCHANGED <<isLoading, overlay, lastAlert, dropVars, fragVars, viewVars,
                 hidden, runs, clipVars, panelVars>>

\* categoryName.toLowerCase().includes("ifcspace")
IsSpaceCategory(name) == includes(toLowerCase(name), ifcspace)

SpaceCategories == {n \in CategoriesIn(classifier.categories) : IsSpaceCategory(n)}

\* hideIfcSpaces after its awaits (part_000:1009-1026), then updateStoreyData
\* begins
HideDone(c) ==
  LET ids == UNION {CategoryGroupIds(n) : n \in SpaceCategories}
      fs == [filterState EXCEPT !.categories =
               [n \in (DOMAIN @) \cup SpaceCategories |->
                  IF n \in SpaceCategories THEN FALSE ELSE @[n]]]
      upd == updateFilterUI(classifier, fs)
  IN
  /\ calls[c].h = "hide"
  /\ hidden' = setVisible(hidden, calls[c].cap, ids, FALSE)
  /\ filterState' = upd.state
  /\ filterUI' = upd.ui
  /\ calls' = [calls EXCEPT ![c] = AtStorey(calls[c])]
  /\ UNCHANGED <<isLoading, overlay, lastAlert, dropVars, fragVars, viewVars,
                 classifier, runs, clipVars, panelVars>>

\* updateStoreyData after its awaits: the end of the timer callback
StoreyDone(c) ==
  /\ calls[c].h = "storey"
  /\ calls' = [calls EXCEPT ![c] = Finished(calls[c])]
  /\ UNCHANGED <<isLoading, overlay, lastAlert, dropVars, fragVars, viewVars,
                 filterVars, clipVars, panelVars>>

\* ------------------------------------------------------------- the models
\* A JavaScript Map keeps its entries in a list; delete() empties the slot of
\* the entry and leaves the others where they are, so that a running
\* iterator goes on with the entry after the deleted one.
Deleted == <<"x", "x">>

MapDeleteShifting(entries, i) == SubSeq(entries, 1, i - 1) \o SubSeq(entries, i + 1, Len(entries))
MapDelete(entries, i) == [entries EXCEPT ![i] = Deleted]

\* for (const [id, model] of fragments.list) {
\*   world.scene.three.remove(model.object); fragments.list.delete(id); }
RECURSIVE ClearLoop(_, _, _)
ClearLoop(entries, i, sc) ==
  IF i > Len(entries) THEN [entries |-> entries, scene |-> sc]
  ELSE IF entries[i] = Deleted THEN ClearLoop(entries, i + 1, sc)
  ELSE ClearLoop(MapDelete(entries, i), i + 1, sc \ {entries[i]})

Live(entries) == SelectSeq(entries, LAMBDA e : e # Deleted)

OrphanCap(rec) == IF rec.cap = NoModel THEN rec ELSE [rec EXCEPT !.cap = Orphan]
OrphanRun(run) == IF run.pc = "idle" THEN run ELSE [run EXCEPT !.m = Orphan]

\* clearModels (part_000:437-456); every delete runs the onItemDeleted
\* handler (updateModelsList), and clearModels runs it once more at the end
ClearModelsBody ==
  LET res == ClearLoop(fragmentsList, 1, scene)
      left == Live(res.entries)
  IN
  /\ fragmentsList' = left
  /\ scene' = res.scene
  /\ objVisible' = [m \in Keys(left) |-> objVisible[m]]
  /\ hidden' = {it \in hidden : it[1] \in Keys(left)}
  /\ modelVisibilityState' = EmptyMap
  /\ modelsListUI' = updateModelsList(left, EmptyMap)
  /\ calls' = [c \in Calls |-> OrphanCap(calls[c])]
  /\ runs' = [r \in DOMAIN runs |-> OrphanRun(runs[r])]
  /\ UNCHANGED <<isLoading, overlay, lastAlert, dropVars, viewVars,
                 classifier, filterState, filterUI, clipVars>>

\* a click on the "Limpar Modelos" button that has the listener, wherever the
\* panel stands
ClearModels == ClearModelsBody /\ UNCHANGED panelVars

\* a checkbox of #models-list changes: toggleModelVisibility (part_000:539-547)
ToggleModel(k) ==
  LET id == modelsListUI.items[k].id
      visible == ~modelsListUI.items[k].checked
  IN
  /\ k \in 1..Len(modelsListUI.items)
  /\ modelsListUI' = [modelsListUI EXCEPT !.items[k].checked = visible]
  /\ IF id \in Keys(fragmentsList)
     THEN /\ objVisible' = [objVisible EXCEPT ![id] = visible]
          /\ modelVisibilityState' = Put(modelVisibilityState, id, visible)
     ELSE UNCHANGED <<objVisible, modelVisibilityState>>
  /\ UNCHANGED <<loadVars, dropVars, fragmentsList, scene, viewVars, filterVars, clipVars, panelVars>>

\* showAllModels / hideAllModels (part_000:549-573): the checkbox with the
\* index of the model is updated when it exists
SetAllModels(visible) ==
  /\ objVisible' = [m \in Keys(fragmentsList) |-> visible]
  /\ modelVisibilityState' =
       [m \in (DOMAIN modelVisibilityState) \cup Keys(fragmentsList) |->
          IF m \in Keys(fragmentsList) THEN visible ELSE modelVisibilityState[m]]
  /\ modelsListUI' = [modelsListUI EXCEPT !.items =
       [k \in 1..Len(@) |-> IF k <= Len(fragmentsList)
                            THEN [@[k] EXCEPT !.checked = visible] ELSE @[k]]]
  /\ UNCHANGED <<loadVars, dropVars, fragmentsList, scene, viewVars, filterVars, clipVars, panelVars>>

\* ------------------------------------------------------------ floor plans
\* closePlantView (part_000:934-969) when a view is current
ClosePlantViewNoRotation ==
  /\ openViews' = IF currentViewId \in viewsList THEN openViews \ {currentViewId}
                  ELSE openViews
  /\ currentViewId' = NULL
  /\ gridVisible' = TRUE
  /\ projection' = "Perspective"
  /\ floorDropdown' = [floorDropdown EXCEPT !.value = ""]
  /\ UNCHANGED <<viewsList, floorViews, opening, maxPolarAngle>>
ClosePlantViewBody ==
  /\ openViews' = IF currentViewId \in viewsList THEN openViews \ {currentViewId}
                  ELSE openViews
  /\ currentViewId' = NULL
  /\ gridVisible' = TRUE
  /\ projection' = "Perspective"
  /\ maxPolarAngle' = "PI"
  /\ floorDropdown' = [floorDropdown EXCEPT !.value = ""]
  /\ UNCHANGED <<viewsList, floorViews, opening>>

\* #close-floor-btn click
ClosePlantView ==
  /\ IF currentViewId = NULL THEN UNCHANGED viewVars ELSE ClosePlantViewBody
  /\ UNCHANGED <<loadVars, dropVars, fragVars, filterVars, clipVars, panelVars>>

\* "Fecha vista anterior se houver" (part_000:875-881): the views open after it
KeepPrevious == openViews
ClosePrevious ==
  IF currentViewId # NULL /\ currentViewId \in viewsList
  THEN openViews \ {currentViewId} ELSE openViews

\* #floor-dropdown change: openFloorPlan(target.value) up to its first await
\* (part_000:859-917)
OpenFloorPlan(viewId) ==
  /\ viewId \in floorDropdown.options \cup {""}
  /\ viewId # floorDropdown.value
  /\ IF viewId = ""
     THEN IF currentViewId = NULL
          THEN /\ floorDropdown' = [floorDropdown EXCEPT !.value = ""]
               /\ UNCHANGED <<viewsList, openViews, floorViews, currentViewId,
                              gridVisible, projection, maxPolarAngle, opening>>
          ELSE ClosePlantViewBody
     ELSE IF viewId \notin viewsList
          THEN /\ floorDropdown' = [floorDropdown EXCEPT !.value = viewId]
               /\ UNCHANGED <<viewsList, openViews, floorViews, currentViewId,
                              gridVisible, projection, maxPolarAngle, opening>>
          ELSE /\ floorDropdown' = [floorDropdown EXCEPT !.value = viewId]
               /\ openViews' = ClosePrevious \cup {viewId}
               /\ currentViewId' = viewId
               /\ projection' = "Orthographic"
               /\ gridVisible' = FALSE
               /\ IF FirstModel # NoModel
                  THEN opening < MaxOpening /\ opening' = opening + 1
                  ELSE UNCHANGED opening
               /\ UNCHANGED <<viewsList, floorViews, maxPolarAngle>>
  /\ UNCHANGED <<loadVars, dropVars, fragVars, filterVars, clipVars, panelVars>>

\* openFloorPlan after setLookAt and fitToBox (part_000:927-929)
OpenCameraDone ==
  /\ opening > 0
  /\ opening' = opening - 1
  /\ maxPolarAngle' = "0"
  /\ UNCHANGED <<viewsList, openViews, floorViews, currentViewId, gridVisible,
                 projection, floorDropdown>>
  /\ UNCHANGED <<loadVars, dropVars, fragVars, filterVars, clipVars, panelVars>>

\* #perspective-btn / #orthographic-btn click (part_000:1573-1574)
SetProjection(p) ==
  /\ projection' = p
  /\ UNCHANGED <<viewsList, openViews, floorViews, currentViewId, gridVisible,
                 maxPolarAngle, floorDropdown, opening>>
  /\ UNCHANGED <<loadVars, dropVars, fragVars, filterVars, clipVars, panelVars>>

\* ---------------------------------------------------------------- filters
Runs == 1..MaxRuns
IdleRun == [pc |-> "idle", m |-> NoModel, sDef |-> FALSE, cDef |-> FALSE, alone |-> FALSE]

\* filterState.<kind>.get(name), undefined being falsy
Checked(map, name) == name \in DOMAIN map /\ map[name]

\* applyFilters up to its first await (part_000:1112-1128); `alone` records
\* that no other invocation ran while this one did
applyFilters ==
  IF FirstModel = NoModel THEN UNCHANGED runs
  ELSE \E r \in Runs :
         /\ runs[r].pc = "idle"
         /\ \A q \in Runs : q < r => runs[q].pc # "idle"
         /\ runs' = [q \in Runs |->
              IF q = r
              THEN [pc |-> "collect", m |-> FirstModel,
                    sDef |-> classifier.storeys # {},
                    cDef |-> classifier.categories # {},
                    alone |-> \A x \in Runs : runs[x].pc = "idle"]
              ELSE [runs[q] EXCEPT !.alone = FALSE]]

\* a checkbox of #storey-filters or #category-filters changes:
\* handleFilterChange (part_000:1094-1109)
HandleFilterChange(type, name) ==
  LET checked == ~filterUI[type][name] IN
  /\ name \in DOMAIN filterUI[type]
  /\ filterUI' = [filterUI EXCEPT ![type][name] = checked]
  /\ filterState' = [filterState EXCEPT ![type] = Put(@, name, checked)]
  /\ applyFilters
  /\ UNCHANGED <<loadVars, dropVars, fragVars, viewVars, classifier, hidden, clipVars, panelVars>>

\* #select-all-* / #deselect-all-* click: toggleAllFilters (part_000:1174-1188)
ToggleAllFilters(type, checked) ==
  /\ filterState' = [filterState EXCEPT ![type] = [n \in DOMAIN @ |-> checked]]
  /\ filterUI' = [filterUI EXCEPT ![type] = [n \in DOMAIN @ |-> checked]]
  /\ applyFilters
  /\ UNCHANGED <<loadVars, dropVars, fragVars, viewVars, classifier, hidden, clipVars, panelVars>>

\* "Coleta todos os IDs de todos os andares" (part_000:1123-1134)
CollectAllIds == UNION {StoreyGroupIds(n) : n \in StoreysIn(classifier.storeys)}

\* applyFilters after the ids are collected: "Mostra todos os elementos"
\* (part_000:1136-1139)
ApplyShowAll(r) ==
  LET allIds == IF runs[r].sDef THEN CollectAllIds ELSE {} IN
  /\ runs[r].pc = "collect"
  /\ hidden' = setVisible(hidden, runs[r].m, allIds, TRUE)
  /\ runs' = [runs EXCEPT ![r].pc = "storeys"]
  /\ UNCHANGED <<loadVars, dropVars, fragVars, viewVars, classifier, filterState,
                 filterUI, clipVars, panelVars>>

\* applyFilters after the unchecked storeys are hidden (part_000:1141-1153)
ApplyHideStoreys(r) ==
  LET off == IF runs[r].sDef
             THEN {n \in StoreysIn(classifier.storeys) : ~Checked(filterState.storeys, n)}
             ELSE {}
  IN
  /\ runs[r].pc = "storeys"
  /\ hidden' = setVisible(hidden, runs[r].m, UNION {StoreyGroupIds(n) : n \in off}, FALSE)
  /\ runs' = [runs EXCEPT ![r].pc = "categories"]
  /\ UNCHANGED <<loadVars, dropVars, fragVars, viewVars, classifier, filterState,
                 filterUI, clipVars, panelVars>>

\* applyFilters after the unchecked categories are hidden (part_000:1155-1170):
\* the invocation is over
ApplyHideCategories(r) ==
  LET off == IF runs[r].cDef
             THEN {n \in CategoriesIn(classifier.categories) : ~Checked(filterState.categories, n)}
             ELSE {}
  IN
  /\ runs[r].pc = "categories"
  /\ hidden' = setVisible(hidden, runs[r].m, UNION {CategoryGroupIds(n) : n \in off}, FALSE)
  /\ runs' = [runs EXCEPT ![r] = IdleRun]
  /\ UNCHANGED <<loadVars, dropVars, fragVars, viewVars, classifier, filterState,
                 filterUI, clipVars, panelVars>>

\* ---------------------------------------------------------------- clipper
\* const margin = 0.5, in quarters
Margin == 2

Center(box) == [k \in 1..3 |-> (box.min[k] + box.max[k]) \div 2]

Plane(normal, point) == [normal |-> normal, point |-> point]

\* the six createFromNormalAndCoplanarPoint calls (part_000:1353-1394)
BoxPlanesOutward(box) ==
  LET c == Center(box) IN
  << Plane(<<0, 1, 0>>,  <<c[1], box.max[2] + Margin, c[3]>>),
     Plane(<<0, -1, 0>>, <<c[1], box.min[2] - Margin, c[3]>>),
     Plane(<<0, 0, 1>>,  <<c[1], c[2], box.max[3] + Margin>>),
     Plane(<<0, 0, -1>>, <<c[1], c[2], box.min[3] - Margin>>),
     Plane(<<1, 0, 0>>,  <<box.max[1] + Margin, c[2], c[3]>>),
     Plane(<<-1, 0, 0>>, <<box.min[1] - Margin, c[2], c[3]>>) >>
BoxPlanes(box) ==
  LET c == Center(box) IN
  << Plane(<<0, -1, 0>>, <<c[1], box.max[2] + Margin, c[3]>>),
     Plane(<<0, 1, 0>>,  <<c[1], box.min[2] - Margin, c[3]>>),
     Plane(<<0, 0, -1>>, <<c[1], c[2], box.max[3] + Margin>>),
     Plane(<<0, 0, 1>>,  <<c[1], c[2], box.min[3] - Margin>>),
     Plane(<<-1, 0, 0>>, <<box.max[1] + Margin, c[2], c[3]>>),
     Plane(<<1, 0, 0>>,  <<box.min[1] - Margin, c[2], c[3]>>) >>

NoHelper == [on |-> FALSE, min |-> <<0, 0, 0>>, max |-> <<0, 0, 0>>]

\* #create-box-btn click: createClippingBox (part_000:1311-1397)
CreateClippingBox ==
  LET box == BoxOf(FirstModel) IN
  /\ IF FirstModel = NoModel
     THEN /\ lastAlert' = "Carregue um modelo primeiro para criar a caixa de corte."
          /\ UNCHANGED clipVars
     ELSE /\ Len(clipperList) + 6 <= MaxPlanes
          /\ clippingBoxHelper' =
               [on |-> TRUE,
                min |-> [k \in 1..3 |-> box.min[k] - Margin],
                max |-> [k \in 1..3 |-> box.max[k] + Margin]]
          /\ sceneHelpers' = (IF clippingBoxHelper.on THEN sceneHelpers - 1 ELSE sceneHelpers) + 1
          /\ clipperList' = clipperList \o BoxPlanes(box)
          /\ UNCHANGED <<lastAlert, clippingMode, dblclick>>
  /\ UNCHANGED <<isLoading, overlay, calls, dropVars, fragVars, viewVars, filterVars, panelVars>>

\* container dblclick (part_000:1206-1214) up to its await: the callback
\* waits in clipper.create ("create") or in frameObjectUnderCursor ("frame");
\* one callback is followed at a time
DblClick ==
  /\ dblclick = "idle"
  /\ dblclick' = IF clippingMode THEN "create" ELSE "frame"
  /\ UNCHANGED <<clipperList, clippingMode, clippingBoxHelper, sceneHelpers>>
  /\ UNCHANGED <<loadVars, dropVars, fragVars, viewVars, filterVars, panelVars>>

\* the plane clipper.create puts on the object under the cursor
PickedPlane == Plane(<<0, 1, 0>>, <<0, 0, 0>>)

\* the awaited call returns; hit: the ray met an object. clipper.create adds
\* a plane on it, frameObjectUnderCursor (part_000:1217-1297) only moves the
\* camera
DblClickDone(hit) ==
  /\ dblclick # "idle"
  /\ dblclick' = "idle"
  /\ IF dblclick = "create" /\ hit /\ Len(clipperList) < MaxPlanes
     THEN clipperList' = Append(clipperList, PickedPlane)
     ELSE UNCHANGED clipperList
  /\ UNCHANGED <<clippingMode, clippingBoxHelper, sceneHelpers>>
  /\ UNCHANGED <<loadVars, dropVars, fragVars, viewVars, filterVars, panelVars>>

\* #delete-planes-btn click: clipper.deleteAll() (part_000:1618-1621)
DeleteAllPlanes ==
  /\ clipperList' = <<>>
  /\ UNCHANGED <<clippingMode, dblclick, clippingBoxHelper, sceneHelpers>>
  /\ UNCHANGED <<loadVars, dropVars, fragVars, viewVars, filterVars, panelVars>>

\* Delete / Backspace key (part_000:1300-1306): clipper.delete removes the
\* plane under the cursor, if there is one
KeyDelete(k) ==
  /\ k \in 1..Len(clipperList)
  /\ clipperList' = SubSeq(clipperList, 1, k - 1) \o SubSeq(clipperList, k + 1, Len(clipperList))
  /\ UNCHANGED <<clippingMode, dblclick, clippingBoxHelper, sceneHelpers>>
  /\ UNCHANGED <<loadVars, dropVars, fragVars, viewVars, filterVars, panelVars>>

\* ------------------------------------------------------------------ panel
\* the bim-panel-section elements of createPanel, in document order
\* (part_000:1415-1567)
NumSections == 8
Sections == 1..NumSections

\* buttons of the panel in document order, with the section they are in:
\* clear-btn of "Modelos" (part_000:1433-1437), download-btn and clear-btn of
\* "Acoes" (part_000:1556-1566)
PanelButtons ==
  << [id |-> "clear-btn", label |-> "Limpar Modelos", section |-> 1],
     [id |-> "download-btn", label |-> "Baixar Fragments", section |-> 8],
     [id |-> "clear-btn", label |-> "Limpar Modelos", section |-> 8] >>
Buttons == DOMAIN PanelButtons

\* panel.querySelector("#id"): the first element with the id, or none
querySelector(id) ==
  {b \in Buttons : PanelButtons[b].id = id /\ \A a \in Buttons : a < b => PanelButtons[a].id # id}

\* panel.querySelector("#..")?.addEventListener("click", ..) (part_000:1585-1586)
Wiring ==
  { [id |-> "download-btn", listener |-> "downloadFragments"],
    [id |-> "clear-btn", listener |-> "clearModels"] }

\* the listeners createPanel leaves on each button
createPanel ==
  [b \in Buttons |-> {w.listener : w \in {x \in Wiring : b \in querySelector(x.id)}}]

\* the click listener of a panel section (part_000:1660-1671), run for a click
\* on section s or inside it: the attributes after it
KeepOthers(col, s) == col
SectionClick(col, s) ==
  IF ~col[s]
  THEN [o \in Sections |-> IF o # s /\ ~col[o] THEN TRUE ELSE col[o]]
  ELSE col

\* a click on the header of section s
ClickHeader(s) ==
  /\ collapsed' = SectionClick([collapsed EXCEPT ![s] = ~@], s)
  /\ UNCHANGED clickListeners
  /\ UNCHANGED <<loadVars, dropVars, fragVars, viewVars, filterVars, clipVars>>

\* a click on button b, in a section that is open: the listeners of the
\* button run, then the listener of its section
ClickButton(b) ==
  /\ ~collapsed[PanelButtons[b].section]
  /\ collapsed' = SectionClick(collapsed, PanelButtons[b].section)
  /\ UNCHANGED clickListeners
  /\ IF "clearModels" \in clickListeners[b]
     THEN ClearModelsBody
     ELSE UNCHANGED <<loadVars, dropVars, fragVars, viewVars, filterVars, clipVars>>

\* ------------------------------------------------------- the state machine
Init ==
  /\ isLoading = FALSE
  /\ overlay = [display |-> "none", filename |-> <<>>, percent |-> 0,
                status |-> "Processando arquivo IFC"]
  /\ calls = [c \in Calls |-> IdleCall]
  /\ lastAlert = NULL
  /\ dropZone = FALSE
  /\ dropIndicators = 0
  /\ fragmentsList = <<>>
  /\ scene = {}
  /\ objVisible = EmptyMap
  /\ modelVisibilityState = EmptyMap
  /\ modelsListUI = [placeholder |-> TRUE, items |-> <<>>]
  /\ viewsList = {}
  /\ openViews = {}
  /\ floorViews = {}
  /\ currentViewId = NULL
  /\ gridVisible = TRUE
  /\ projection = "Perspective"
  /\ maxPolarAngle = "PI"
  /\ floorDropdown = [options |-> {}, value |-> ""]
  /\ opening = 0
  /\ classifier = [storeys |-> {}, categories |-> {}]
  /\ filterState = [storeys |-> EmptyMap, categories |-> EmptyMap]
  /\ filterUI = [storeys |-> EmptyMap, categories |-> EmptyMap]
  /\ hidden = {}
  /\ runs = [r \in Runs |-> IdleRun]
  /\ clipperList = <<>>
  /\ clippingMode = FALSE
  /\ dblclick = "idle"
  /\ clippingBoxHelper = NoHelper
  /\ sceneHelpers = 0
  /\ collapsed = [s \in Sections |-> TRUE]
  /\ clickListeners = createPanel

LoadCore ==
  \/ \E f \in FileNames : OnFileInput(f)
  \/ \E c \in Calls, ok \in BOOLEAN : ReadDone(c, ok)
  \/ \E c \in Calls : LoaderThrows(c)
  \/ \E c \in Calls : LoaderDone(c)
  \/ \E c \in Calls : DelayDone(c)

LoadNext ==
  \/ LoadCore
  \/ \E c \in Calls, p \in LoaderProgress : Progress(c, p)

DropNext ==
  \/ DragOver
  \/ \E outside \in BOOLEAN : DragLeave(outside)
  \/ \E files \in Drops : Drop(files)

HandlerNext ==
  \/ \E c \in Calls : HandlerFramesDone(c)
  \/ \E c \in Calls : HandlerAdjustDone(c)
  \/ \E c \in Calls : TimerFires(c)

PostNext ==
  \/ \E c \in Calls : GenClassified(c)
  \/ \E c \in Calls : GenViewsCreated(c)
  \/ \E c \in Calls : ProcDone(c)
  \/ \E c \in Calls : HideDone(c)
  \/ \E c \in Calls : StoreyDone(c)

ModelsNext ==
  \/ \E k \in 1..MaxCalls : ToggleModel(k)
  \/ \E v \in BOOLEAN : SetAllModels(v)

ViewIds == {"Terreo", "Piso 1", "Nivel 1", "Vista Superior (Topo)"}

ViewNext ==
  \/ \E v \in ViewIds \cup {""} : OpenFloorPlan(v)
  \/ ClosePlantView
  \/ OpenCameraDone
  \/ \E p \in {"Perspective", "Orthographic"} : SetProjection(p)

FilterTypes == {"storeys", "categories"}

FilterNext ==
  \/ \E t \in FilterTypes : \E n \in DOMAIN filterUI[t] : HandleFilterChange(t, n)
  \/ \E t \in FilterTypes, v \in BOOLEAN : ToggleAllFilters(t, v)
  \/ \E r \in Runs : ApplyShowAll(r)
  \/ \E r \in Runs : ApplyHideStoreys(r)
  \/ \E r \in Runs : ApplyHideCategories(r)

PanelNext ==
  \/ \E s \in Sections : ClickHeader(s)
  \/ \E b \in Buttons : ClickButton(b)

ClipNext ==
  \/ CreateClippingBox
  \/ DblClick
  \/ \E hit \in BOOLEAN : DblClickDone(hit)
  \/ DeleteAllPlanes
  \/ \E k \in 1..MaxPlanes : KeyDelete(k)

Next ==
  \/ LoadNext
  \/ DropNext
  \/ HandlerNext
  \/ PostNext
  \/ ClearModels
  \/ ModelsNext
  \/ ViewNext
  \/ FilterNext
  \/ ClipNext
  \/ PanelNext

Spec == Init /\ [][Next]_vars

\* The features of the viewer share the loaded models and nothing else: the
\* actions of one feature neither read nor write the variables of another.
\* Each of the following specifications takes the actions that read or write
\* the variables of one feature, together with the loading and clearing of
\* models; the actions left out leave those variables unchanged.

\* loading and drag and drop
NextLoad == LoadNext \/ DropNext \/ ClearModels
SpecLoad == Init /\ [][NextLoad]_vars

\* A promise of file.arrayBuffer() or of ifcLoader.load settles and a timer
\* fires: a load that can take its next step takes it.
LoadStep(c) ==
  \/ \E ok \in BOOLEAN : ReadDone(c, ok)
  \/ LoaderThrows(c)
  \/ LoaderDone(c)
  \/ DelayDone(c)
FairSpecLoad == SpecLoad /\ \A c \in Calls : WF_vars(LoadStep(c))

\* the models list
NextModels == LoadCore \/ HandlerNext \/ ClearModels \/ ModelsNext
SpecModels == Init /\ [][NextModels]_vars

\* floor plans
NextViews ==
  \/ LoadCore
  \/ HandlerNext
  \/ \E c \in Calls : GenClassified(c)
  \/ \E c \in Calls : GenViewsCreated(c)
  \/ ClearModels
  \/ ViewNext
SpecViews == Init /\ [][NextViews]_vars

\* filters
NextFilters == LoadCore \/ HandlerNext \/ PostNext \/ FilterNext
SpecFilters == Init /\ [][NextFilters]_vars

\* the clipping box; the Delete key is pressed over the newest plane
NextClip ==
  \/ LoadCore
  \/ ClearModels
  \/ CreateClippingBox
  \/ DeleteAllPlanes
  \/ \E k \in {Len(clipperList)} : KeyDelete(k)
SpecClip == Init /\ [][NextClip]_vars

\* double clicks on the container
NextDblClick ==
  \/ LoadCore
  \/ ClearModels
  \/ CreateClippingBox
  \/ DblClick
  \/ \E hit \in BOOLEAN : DblClickDone(hit)
  \/ DeleteAllPlanes
SpecDblClick == Init /\ [][NextDblClick]_vars

\* the onItemSet handler and the post-processing
NextHandler == LoadCore \/ HandlerNext \/ PostNext \/ ClearModels
SpecHandler == Init /\ [][NextHandler]_vars

\* the panel
NextPanel == LoadCore \/ PanelNext
SpecPanel == Init /\ [][NextPanel]_vars

\* ------------------------------------------------------------- properties
LoadErrorAlert == "Erro ao carregar o arquivo IFC. Verifique o console."
DropAlert == "Por favor, solte apenas arquivos .ifc"

\* C1: at most one load is in progress at any time; an invocation of
\* loadIfcFromFile made while a load is in progress returns and leaves the
\* overlay, the progress display, isLoading (still true) and the loader alone,
\* and it never becomes a load later.
C1_AtMostOneLoad == Cardinality({c \in Calls : InProgress(c)}) <= 1

C1_SingleLoad ==
  /\ []C1_AtMostOneLoad
  /\ [][\A c \in Calls :
          /\ (calls[c].pc = "idle" /\ calls'[c].pc = "returned") =>
               /\ isLoading /\ isLoading'
               /\ overlay' = overlay
               /\ fragmentsList' = fragmentsList
               /\ \A d \in Calls \ {c} : calls'[d] = calls[d]
          /\ calls[c].pc = "returned" => calls'[c].pc = "returned"]_vars

\* a second invocation was turned away while the first load is running
C1_Witness ==
  \E c, d \in Calls : calls[c].pc = "returned" /\ calls[d].pc = "converting"

\* C2: a load that started ends, and when it ends the overlay is hidden and
\* isLoading is false; when reading or converting throws, the user is alerted
\* and the invocation ends the same way; so isLoading never stays true.
C2_LoadEnds ==
  /\ \A c \in Calls : InProgress(c) ~> (calls[c].pc = "done")
  /\ isLoading ~> ~isLoading
  /\ [][\A c \in Calls :
          /\ (InProgress(c) /\ calls'[c].pc = "done") =>
               (~isLoading' /\ overlay'.display = "none")
          /\ (InProgress(c) /\ calls[c].pc # "delay" /\ calls'[c].pc = "done") =>
               lastAlert' = LoadErrorAlert
          /\ InProgress(c) => calls'[c].pc \in {"reading", "converting", "delay", "done"}]_vars

\* a load failed, another succeeded, and a load can start again
C2_Witness ==
  /\ lastAlert = LoadErrorAlert
  /\ fragmentsList # <<>>
  /\ ~isLoading
  /\ overlay.display = "none"
  /\ \A c \in Calls : calls[c].pc = "done"

\* C3: a dropped file starts a load only if its name ends with ".ifc" in any
\* letter case (of the files considered: a.ifc and B.IFC); a drop of another
\* file alerts and starts nothing; after every drop the indicator is removed
\* and dropZone is null.
IfcNamed == {FileA, FileB}

C3_Drop ==
  /\ [](\A c \in Calls :
          (calls[c].src = "drop" /\ calls[c].pc \in {"reading", "converting"})
            => calls[c].file \in IfcNamed)
  /\ [][\A files \in Drops : Drop(files) =>
          /\ ~dropZone' /\ dropIndicators' = 0
          /\ (files # <<>> /\ files[1] \notin IfcNamed) =>
               (lastAlert' = DropAlert /\ calls' = calls /\ isLoading' = isLoading
                 /\ overlay' = overlay)
          /\ files = <<>> => UNCHANGED loadVars]_vars

\* B.IFC was dropped while the indicator was shown, and is being read
C3_Witness ==
  /\ \E c \in Calls : calls[c].src = "drop" /\ calls[c].file = FileB /\ calls[c].pc = "reading"
  /\ ~dropZone

\* C4: at most one view is open at any time; openFloorPlan with the id of an
\* existing view leaves that view as the only open one, whatever was open
\* before, and makes it the current view.
C4_OneViewOpen ==
  /\ [](Cardinality(openViews) <= 1 /\ openViews \subseteq viewsList)
  /\ [][\A v \in ViewIds : (OpenFloorPlan(v) /\ v \in viewsList) =>
          (openViews' = {v} /\ currentViewId' = v)]_vars

\* a view is open and current while another view exists
C4_Witness ==
  /\ currentViewId = "Piso 1"
  /\ openViews = {"Piso 1"}
  /\ "Terreo" \in viewsList
  /\ floorDropdown.value = "Piso 1"

\* C5: with a current floor plan, closePlantView (the button, or the empty
\* entry of the dropdown) leaves no view open, currentViewId null, the grid
\* visible, the projection Perspective, the polar angle free (up to PI) and
\* the dropdown on its empty entry.
C5_BackTo3D ==
  [][(currentViewId # NULL /\ (ClosePlantView \/ OpenFloorPlan(""))) =>
       /\ openViews' = {}
       /\ currentViewId' = NULL
       /\ gridVisible'
       /\ projection' = "Perspective"
       /\ maxPolarAngle' = "PI"
       /\ floorDropdown'.value = ""]_vars

\* the plan was closed while openFloorPlan still waits for the camera
C5_Witness ==
  /\ opening = 1
  /\ currentViewId = NULL
  /\ openViews = {}
  /\ maxPolarAngle = "PI"
  /\ gridVisible

\* C6: when an invocation of applyFilters that no other invocation overlapped
\* ends, with the models classified when it began and no load or post-load
\* processing under way, every element of the first model is visible exactly
\* when its category is checked and its storey, if it has one, is checked.
C6_FilterResult ==
  [][\A r \in Runs :
       (/\ runs[r].pc = "categories" /\ runs'[r].pc = "idle"
        /\ runs[r].alone
        /\ runs[r].m = FirstModel
        /\ runs[r].sDef /\ runs[r].cDef
        /\ FirstModel \in classifier.storeys \cap classifier.categories
        /\ \A c \in Calls : calls[c].pc \in {"idle", "done"} /\ calls[c].h \in {"-", "done"}) =>
         \A i \in ItemsOf(FirstModel) :
           (<<FirstModel, i>> \notin hidden') <=>
             /\ StoreyOf(FirstModel, i) # NoStorey =>
                  Checked(filterState.storeys, StoreyOf(FirstModel, i))
             /\ Checked(filterState.categories, CategoryOf(FirstModel, i))]_vars

\* C7: when hideIfcSpaces ends, every category whose name contains "ifcspace"
\* in any letter case has filter state false and an unchecked checkbox, its
\* elements in every loaded model are hidden, and the states of the other
\* categories and of the storeys are as they were.
C7_SpacesHidden ==
  [][\A c \in Calls :
       (calls[c].h = "hide" /\ calls'[c].h # "hide") =>
         /\ \A n \in SpaceCategories :
              /\ filterState'.categories[n] = FALSE
              /\ filterUI'.categories[n] = FALSE
              /\ \A it \in AllItems(Keys(fragmentsList) \cap classifier.categories) :
                   CategoryOf(it[1], it[2]) = n => it \in hidden'
         /\ \A n \in (DOMAIN filterState.categories) \ SpaceCategories :
              filterState'.categories[n] = filterState.categories[n]
         /\ filterState'.storeys = filterState.storeys]_vars

\* C8: createClippingBox with a model appends six planes to the planes there
\* were: one per face of the bounding box of the first model, at the face
\* moved outward by the margin, through the centre of the box on the other two
\* axes, with the normals -Y, +Y, -Z, +Z, -X, +X, each of which points from
\* its plane to the centre; the outline helper is the box grown by the margin.
\* With no model it alerts and leaves planes and helper as they were.
ClipAlert == "Carregue um modelo primeiro para criar a caixa de corte."

Faces ==
  << [axis |-> 2, max |-> TRUE,  normal |-> <<0, -1, 0>>],
     [axis |-> 2, max |-> FALSE, normal |-> <<0, 1, 0>>],
     [axis |-> 3, max |-> TRUE,  normal |-> <<0, 0, -1>>],
     [axis |-> 3, max |-> FALSE, normal |-> <<0, 0, 1>>],
     [axis |-> 1, max |-> TRUE,  normal |-> <<-1, 0, 0>>],
     [axis |-> 1, max |-> FALSE, normal |-> <<1, 0, 0>>] >>

Dot(u, v) == u[1] * v[1] + u[2] * v[2] + u[3] * v[3]

OnFace(plane, face, box) ==
  LET c == Center(box) IN
  /\ plane.normal = face.normal
  /\ \A k \in 1..3 :
       plane.point[k] =
         IF k # face.axis THEN c[k]
         ELSE IF face.max THEN box.max[k] + Margin ELSE box.min[k] - Margin
  /\ Dot(plane.normal, [k \in 1..3 |-> c[k] - plane.point[k]]) > 0

C8_ClippingBox ==
  [][CreateClippingBox =>
       IF FirstModel = NoModel
       THEN lastAlert' = ClipAlert /\ UNCHANGED clipVars
       ELSE LET box == BoxOf(FirstModel)
                n == Len(clipperList)
            IN /\ Len(clipperList') = n + 6
               /\ SubSeq(clipperList', 1, n) = clipperList
               /\ \A j \in 1..6 : OnFace(clipperList'[n + j], Faces[j], box)
               /\ clippingBoxHelper'.on
               /\ \A k \in 1..3 :
                    /\ clippingBoxHelper'.min[k] = box.min[k] - Margin
                    /\ clippingBoxHelper'.max[k] = box.max[k] + Margin
               /\ sceneHelpers' = 1]_vars

\* the box was created for the first model on top of two planes of an earlier
\* box, after an alert with no model
C8_Witness ==
  /\ FirstModel # NoModel
  /\ Len(clipperList) = 8
  /\ \A j \in 1..6 : OnFace(clipperList[2 + j], Faces[j], BoxOf(FirstModel))
  /\ clippingBoxHelper.on
  /\ sceneHelpers = 1
  /\ lastAlert = ClipAlert

\* C9: with a model loaded, the dblclick callback of the container goes on to
\* create a plane.
C9_DblClickCreates ==
  [][(FirstModel # NoModel /\ dblclick = "idle" /\ dblclick' # "idle") =>
       dblclick' = "create"]_vars

\* C10: clearModels leaves fragments.list empty, none of the models that were
\* in it in the scene, modelVisibilityState empty and the placeholder in the
\* models list, however many models there were.
C10_Cleared ==
  [][ClearModels =>
       /\ fragmentsList' = <<>>
       /\ scene' \cap Keys(fragmentsList) = {}
       /\ modelVisibilityState' = EmptyMap
       /\ modelsListUI' = [placeholder |-> TRUE, items |-> <<>>]]_vars

\* both loads put a model in the list, and the list has been cleared
C10_Witness ==
  /\ fragmentsList = <<>>
  /\ scene = {}
  /\ modelVisibilityState = EmptyMap
  /\ modelsListUI.placeholder
  /\ \A c \in Calls : calls[c].pc = "done" /\ calls[c].h # "-"

\* C11: whenever models are loaded and a button labelled "Limpar Modelos" can
\* be clicked (its section is open), the button has the clearModels click
\* listener, so that the click empties fragments.list.
C11_ClearWired ==
  \A b \in Buttons :
    (/\ PanelButtons[b].label = "Limpar Modelos"
     /\ ~collapsed[PanelButtons[b].section]
     /\ fragmentsList # <<>>) =>
       "clearModels" \in clickListeners[b]

\* C12: at most one section is open at any time, and a click on the header of
\* a collapsed section leaves that section as the only open one.
OpenSections == {s \in Sections : ~collapsed[s]}

C12_Accordion ==
  /\ [](Cardinality(OpenSections) <= 1)
  /\ [][\A s \in Sections : (collapsed[s] /\ ClickHeader(s)) => OpenSections' = {s}]_vars

\* "Acoes" is the open section, after the models were cleared from "Modelos"
C12_Witness ==
  /\ OpenSections = {8}
  /\ fragmentsList = <<>>
  /\ \E c \in Calls : calls[c].h # "-"

\* C13: the handler of a model goes through its steps in this order and one
\* at a time: the model is in the scene when the handler begins; then
\* adjustModelToLevel0; then frameModel and updateModelsList; then the timer;
\* then generateFloorPlans, processClassifications, hideIfcSpaces and
\* updateStoreyData, each beginning when the one before has returned. A
\* function is passed over only when it returns at once (no model, or no
\* categories for hideIfcSpaces).
HandlerOrder ==
  <<"frames", "adjust", "timer", "gen1", "gen2", "proc", "hide", "storey", "done">>

Pos(h) == CHOOSE i \in DOMAIN HandlerOrder : HandlerOrder[i] = h

ReturnsAtOnce(stage) ==
  CASE stage \in {"gen1", "gen2", "proc"} -> FirstModel = NoModel
    [] stage = "hide" -> FirstModel = NoModel \/ classifier'.categories = {}
    [] stage = "storey" -> fragmentsList = <<>>
    [] OTHER -> FALSE

C13_HandlerOrder ==
  [][\A c \in Calls :
       calls'[c].h # calls[c].h =>
         IF calls[c].h = "-"
         THEN /\ calls'[c].h = "frames"
              /\ Len(fragmentsList') = Len(fragmentsList) + 1
              /\ fragmentsList'[Len(fragmentsList')] \in scene'
         ELSE /\ Pos(calls'[c].h) > Pos(calls[c].h)
              /\ \A k \in (Pos(calls[c].h) + 1)..(Pos(calls'[c].h) - 1) :
                   ReturnsAtOnce(HandlerOrder[k])
              /\ calls[c].h = "gen1" => calls'[c].h = "gen2"
              /\ calls[c].h = "adjust" =>
                   modelsListUI' = updateModelsList(fragmentsList, modelVisibilityState)]_vars

\* the handler of a model is over: the model is listed, the floor plans are
\* generated, the filters are filled and the IfcSpace items are hidden
C13_Witness ==
  /\ \E c \in Calls : calls[c].h = "done"
  /\ fragmentsList # <<>>
  /\ ~modelsListUI.placeholder
  /\ floorViews # {}
  /\ classifier.categories # {}
  /\ DOMAIN filterUI.categories # {}
  /\ hidden # {}

====
